---- MODULE Spec2Model ----
(***************************************************************************)
(* DeallocatingVector<ElementT, ELEMENTS_PER_BLOCK>                        *)
(* (DataStructures/DeallocatingVector.h): a segmented vector whose blocks  *)
(* are raw arrays owned through a std::vector of pointers, together with   *)
(* its draining iterator DeallocatingVectorRemoveIterator and its         *)
(* random-access iterator DeallocatingVectorIterator.                      *)
(*                                                                         *)
(* Two containers "a" and "b" live side by side (swap needs two).  No      *)
(* operation of the class copies a block pointer into a second slot, so a  *)
(* slot of bucket_list is modelled together with the block it points to:   *)
(* ptr is "null" (nullptr), "live" (points to an allocated block) or       *)
(* "dead" (still points to a block that was delete[]'d), and elems is the  *)
(* block's content.                                                        *)
(***************************************************************************)
EXTENDS Integers, Sequences, FiniteSets, TLC

\* ---------------------------------------------------------------- bounds
MaxSize == 3      \* number of elements, over both containers, the model follows
MaxVal == 2       \* element values are 1..MaxVal
WordBits == 4     \* width of std::size_t and std::ptrdiff_t in the model

\* ------------------------------------------------------ program constants
ELEMENTS_PER_BLOCK == 2   \* the template parameter, instantiated small
Uninit == 0               \* content of an element new[] left uninitialized
Trap == -1                \* outcome of an access that faults

Containers == {"a", "b"}
Values == 1..MaxVal
NoList == "none"

VARIABLES
    current_size,   \* [Containers -> Nat]            DeallocatingVector::current_size
    bucket_list,    \* [Containers -> Seq(slot)]      DeallocatingVector::bucket_list
    it,             \* the draining iterator's current_state: [index, list]
    fault,          \* what the last call ran into: "none", "double_free",
                    \* "wild_write", or "aborted" (the process is gone)
    thrown,         \* the exception that left the last call, "none" if it returned
    hist,           \* per container: values pushed since construction, if only pushes
    pc,             \* position of the draining loop for (it = dbegin(); it != dend(); ++it)
    visited,        \* indices the loop dereferenced, in order
    cursor,         \* a DeallocatingVectorIterator's current_state: [index, list]
    peer,           \* a second DeallocatingVectorIterator's current_state
    diff,           \* the std::ptrdiff_t the last distance_to returned
    wanted,         \* the n of the caller's last reserve(n) on "a" (SpecReserve)
    got             \* the element the caller's last back() read

vars == <<current_size, bucket_list, it, fault, thrown, hist, pc, visited,
          cursor, peer, diff, wanted, got>>

\* the non-destructive iterators and what they returned
iterators == <<cursor, peer, diff>>

\* what the caller holds besides the containers
caller == <<cursor, peer, diff, wanted, got>>

\* ------------------------------------------------------------- free store
FreshBlock == [o \in 1..ELEMENTS_PER_BLOCK |-> Uninit]

\* nullptr
NULL == [ptr |-> "null", elems |-> FreshBlock]

\* new ElementT[ELEMENTS_PER_BLOCK]: a live block of uninitialized elements
new_block == [ptr |-> "live", elems |-> FreshBlock]

\* delete[] p: a no-op on nullptr; the pointer keeps its value, the block is gone
delete_block(p) ==
    IF p.ptr = "null" THEN p ELSE [ptr |-> "dead", elems |-> FreshBlock]

delete_all(list) == [i \in DOMAIN list |-> delete_block(list[i])]

\* a delete[] of any of these pointers deletes a block a second time
DoubleFree(list) == \E i \in DOMAIN list : list[i].ptr = "dead"

Live(list) == {i \in DOMAIN list : list[i].ptr = "live"}

\* ------------------------------------------------------------ size, capacity
size(c) == current_size[c]

cap_of(list) == Len(list) * ELEMENTS_PER_BLOCK

capacity(c) == cap_of(bucket_list[c])

\* ---------------------------------------------------------- index mapping
bucket_of(index) == index \div ELEMENTS_PER_BLOCK
offset_of(index) == index % ELEMENTS_PER_BLOCK

\* the values a read of p[off] can produce: a null pointer faults, a dead
\* block or an uninitialized element yields anything
read_block(p, off) ==
    IF p.ptr = "null" THEN {Trap}
    ELSE IF p.ptr = "dead" THEN Values \cup {Uninit, Trap}
    ELSE IF p.elems[off + 1] = Uninit THEN Values \cup {Uninit}
    ELSE {p.elems[off + 1]}

\* operator[], lines 267-272: bucket_list[_bucket][_index], no bounds check
index_in(list, index) ==
    IF bucket_of(index) >= Len(list) THEN Values \cup {Uninit, Trap}
    ELSE read_block(list[bucket_of(index) + 1], offset_of(index))

At(c, index) == index_in(bucket_list[c], index)

NoIterator == [index |-> 0, list |-> NoList]

Pure(vals) == [pure |-> TRUE, vals |-> vals]
Mixed == [pure |-> FALSE, vals |-> <<>>]

\* ------------------------------------------------------------------ Init
\* both containers constructed (line 171): one block each, size 0
Init ==
    /\ current_size = [c \in Containers |-> 0]
    /\ bucket_list = [c \in Containers |-> <<new_block>>]
    /\ it = NoIterator
    /\ fault = "none"
    /\ thrown = "none"
    /\ hist = [c \in Containers |-> Pure(<<>>)]
    /\ pc = "build"
    /\ visited = <<>>
    /\ cursor = NoIterator
    /\ peer = NoIterator
    /\ diff = 0
    /\ wanted = 0
    /\ got = Uninit

Running == fault # "aborted"

\* ------------------------------------------------ results of the operations
\* Every operation is computed on the pair (current_size, bucket_list) of one
\* container; the result records what the call left behind:
\*   size, list : the new state
\*   exc  : the exception that left the call ("none" when it returned)
\*   df   : a block already deleted was deleted again (double free)
\*   wild : an element was written through a dead or null pointer
Result(sz, list, exc, df, wild) ==
    [size |-> sz, list |-> list, exc |-> exc, df |-> df, wild |-> wild]

\* bucket_list.back()[current_index] = element
write_back(list, current_index, element) ==
    [list EXCEPT ![Len(list)].elems[current_index + 1] = element]

\* a push that computes the offset after it has counted the new element
push_back_late_index(sz, list, element, avail) ==
    LET current_capacity == cap_of(list)
        grows == sz = current_capacity
        list1 == IF grows THEN Append(list, new_block) ELSE list
        current_index == (sz + 1) % ELEMENTS_PER_BLOCK
    IN  IF grows /\ avail = 0
        THEN Result(sz, list, "bad_alloc", FALSE, FALSE)
        ELSE IF list1[Len(list1)].ptr = "live"
        THEN Result(sz + 1, write_back(list1, current_index, element),
                    "none", FALSE, FALSE)
        ELSE Result(sz + 1, list1, "none", FALSE, TRUE)

\* push_back, lines 196-207.  avail is the number of new[] calls that
\* succeed before one throws std::bad_alloc.
push_back(sz, list, element, avail) ==
    LET current_capacity == cap_of(list)
        grows == sz = current_capacity
        list1 == IF grows THEN Append(list, new_block) ELSE list
        current_index == sz % ELEMENTS_PER_BLOCK
    IN  IF grows /\ avail = 0
        THEN Result(sz, list, "bad_alloc", FALSE, FALSE)
        ELSE IF list1[Len(list1)].ptr = "live"
        THEN Result(sz + 1, write_back(list1, current_index, element),
                    "none", FALSE, FALSE)
        ELSE Result(sz + 1, list1, "none", FALSE, TRUE)

\* emplace_back, lines 209-220
emplace_back(sz, list, element, avail) ==
    LET current_capacity == cap_of(list)
        grows == sz = current_capacity
        list1 == IF grows THEN Append(list, new_block) ELSE list
        current_index == sz % ELEMENTS_PER_BLOCK
    IN  IF grows /\ avail = 0
        THEN Result(sz, list, "bad_alloc", FALSE, FALSE)
        ELSE IF list1[Len(list1)].ptr = "live"
        THEN Result(sz + 1, write_back(list1, current_index, element),
                    "none", FALSE, FALSE)
        ELSE Result(sz + 1, list1, "none", FALSE, TRUE)

\* resize, grow branch, lines 228-231: the while loop, one new[] per turn
RECURSIVE grow_loop(_, _, _)
grow_loop(list, new_size, avail) ==
    IF cap_of(list) >= new_size THEN [list |-> list, exc |-> "none"]
    ELSE IF avail = 0 THEN [list |-> list, exc |-> "bad_alloc"]
    ELSE grow_loop(Append(list, new_block), new_size, avail - 1)

\* the bucket count without the bucket that holds index new_size
number_of_necessary_buckets_floor(new_size) == new_size \div ELEMENTS_PER_BLOCK

\* line 235
number_of_necessary_buckets(new_size) == 1 + (new_size \div ELEMENTS_PER_BLOCK)

\* std::vector<ElementT *>::resize(n): truncate, or pad with nullptr
vector_resize(list, n) == [i \in 1..n |-> IF i <= Len(list) THEN list[i] ELSE NULL]

\* resize, shrink branch, lines 235-240: delete[] every bucket, then resize
\* the vector of pointers; the slots kept still hold the deleted pointers
shrink(list, new_size) ==
    vector_resize(delete_all(list), number_of_necessary_buckets(new_size))

\* a resize that rebuilds the vector of pointers whenever the size changes
resize_always_rebuilds(sz, list, new_size, avail) ==
    IF new_size = sz
    THEN Result(sz, list, "none", FALSE, FALSE)
    ELSE Result(new_size, shrink(list, new_size), "none", DoubleFree(list), FALSE)

\* resize, lines 224-243
resize(sz, list, new_size, avail) ==
    IF new_size >= sz
    THEN LET g == grow_loop(list, new_size, avail)
         IN  Result(IF g.exc = "none" THEN new_size ELSE sz, g.list, g.exc,
                    FALSE, FALSE)
    ELSE Result(new_size, shrink(list, new_size), "none", DoubleFree(list), FALSE)

\* a reserve that allocates blocks until capacity() >= n, as std::vector's does
reserve_allocates(sz, list, n) ==
    Result(sz, grow_loop(list, n, n + 1).list, "none", FALSE, FALSE)

\* reserve, line 222: an empty body
reserve(sz, list, n) == Result(sz, list, "none", FALSE, FALSE)

\* the number of new[] calls resize(new_size) makes when none fails
blocks_to_add(list, new_size) ==
    LET need == (new_size + ELEMENTS_PER_BLOCK - 1) \div ELEMENTS_PER_BLOCK
    IN  IF need > Len(list) THEN need - Len(list) ELSE 0

\* clear, lines 181-194: delete[] every non-null bucket, empty the vector
clear(sz, list) == Result(0, <<>>, "none", DoubleFree(list), FALSE)

\* a swap that forgets std::swap(current_size, other.current_size)
swap_lists_only(sizes, lists, c, other) ==
    [size |-> sizes,
     list |-> [lists EXCEPT ![c] = lists[other], ![other] = lists[c]]]

\* swap, lines 175-179: the sizes and the vectors of pointers change places
swap(sizes, lists, c, other) ==
    [size |-> [sizes EXCEPT ![c] = sizes[other], ![other] = sizes[c]],
     list |-> [lists EXCEPT ![c] = lists[other], ![other] = lists[c]]]

\* an increment that deletes the vacated block but leaves its pointer in place
increment_keep_pointer(index, list) ==
    LET old_bucket == index \div ELEMENTS_PER_BLOCK
        new_bucket == (index + 1) \div ELEMENTS_PER_BLOCK
    IN  IF old_bucket = new_bucket \/ old_bucket >= Len(list)
        THEN Result(index + 1, list, "none", FALSE, FALSE)
        ELSE Result(index + 1,
                    [list EXCEPT ![old_bucket + 1] = delete_block(@)], "none",
                    list[old_bucket + 1].ptr = "dead", FALSE)

\* an increment that releases the block it enters instead of the one it leaves
increment_release_new_bucket(index, list) ==
    LET old_bucket == index \div ELEMENTS_PER_BLOCK
        new_bucket == (index + 1) \div ELEMENTS_PER_BLOCK
    IN  IF old_bucket = new_bucket
        THEN Result(index + 1, list, "none", FALSE, FALSE)
        ELSE IF new_bucket >= Len(list)
        THEN Result(index + 1, list, "out_of_range", FALSE, FALSE)
        ELSE Result(index + 1, [list EXCEPT ![new_bucket + 1] = NULL], "none",
                    list[new_bucket + 1].ptr = "dead", FALSE)

\* an increment that releases the block under the cursor at every step
increment_release_always(index, list) ==
    LET old_bucket == index \div ELEMENTS_PER_BLOCK
    IN  IF old_bucket >= Len(list)
        THEN Result(index + 1, list, "out_of_range", FALSE, FALSE)
        ELSE IF list[old_bucket + 1].ptr = "null"
        THEN Result(index + 1, list, "none", FALSE, FALSE)
        ELSE Result(index + 1, [list EXCEPT ![old_bucket + 1] = NULL], "none",
                    list[old_bucket + 1].ptr = "dead", FALSE)

\* an increment that releases a block when the cursor reaches its last element
increment_release_early(index, list) ==
    LET old_bucket == index \div ELEMENTS_PER_BLOCK
        new_bucket == (index + 2) \div ELEMENTS_PER_BLOCK
    IN  IF old_bucket = new_bucket
        THEN Result(index + 1, list, "none", FALSE, FALSE)
        ELSE IF old_bucket >= Len(list)
        THEN Result(index + 1, list, "out_of_range", FALSE, FALSE)
        ELSE IF list[old_bucket + 1].ptr = "null"
        THEN Result(index + 1, list, "none", FALSE, FALSE)
        ELSE Result(index + 1, [list EXCEPT ![old_bucket + 1] = NULL], "none",
                    list[old_bucket + 1].ptr = "dead", FALSE)

\* an increment that only advances
increment_no_release(index, list) == Result(index + 1, list, "none", FALSE, FALSE)

\* DeallocatingVectorRemoveIterator::increment, lines 123-138, on the bucket
\* list the iterator points to; size is the iterator's index
increment(index, list) ==
    LET old_bucket == index \div ELEMENTS_PER_BLOCK
        new_bucket == (index + 1) \div ELEMENTS_PER_BLOCK
    IN  IF old_bucket = new_bucket
        THEN Result(index + 1, list, "none", FALSE, FALSE)
        ELSE IF old_bucket >= Len(list)
        THEN Result(index + 1, list, "out_of_range", FALSE, FALSE)
        ELSE IF list[old_bucket + 1].ptr = "null"
        THEN Result(index + 1, list, "none", FALSE, FALSE)
        ELSE Result(index + 1, [list EXCEPT ![old_bucket + 1] = NULL], "none",
                    list[old_bucket + 1].ptr = "dead", FALSE)

\* DeallocatingVectorRemoveIterator::dereference, lines 150-155:
\* bucket_list->at(current_bucket)[current_index]; at() checks the bucket
dereference(index, list) ==
    LET current_bucket == index \div ELEMENTS_PER_BLOCK
        current_index == index % ELEMENTS_PER_BLOCK
    IN  IF current_bucket >= Len(list)
        THEN [exc |-> "out_of_range", ptr |-> "null", values |-> {}]
        ELSE [exc |-> "none", ptr |-> list[current_bucket + 1].ptr,
              values |-> read_block(list[current_bucket + 1], current_index)]

\* back(), lines 281-293: bucket_list[_bucket][_index] with _bucket and _index
\* taken from current_size; the vector's operator[] checks nothing
back(sz, list) ==
    LET bucket == sz \div ELEMENTS_PER_BLOCK
        index == sz % ELEMENTS_PER_BLOCK
    IN  [bucket |-> bucket,
         values |-> IF bucket >= Len(list) THEN Values \cup {Uninit, Trap}
                    ELSE read_block(list[bucket + 1], index)]

\* equal, lines 140-143
equal(index, other_index) == index = other_index

\* dend(), line 258
dend(c) == size(c)

\* --------------------------------------------------------------- outcomes
\* A double free either goes unnoticed (the run goes on, in undefined
\* behaviour) or the allocator aborts the process; a write through a dead or
\* null pointer either goes unnoticed or the process is killed.
Outcomes(r) ==
    IF r.df THEN {"double_free", "aborted"}
    ELSE IF r.wild THEN {"wild_write", "aborted"}
    ELSE {"none"}

\* the call on container c leaves result r behind
Commit(c, r, h1) ==
    \E f \in Outcomes(r) :
        /\ fault' = f
        /\ thrown' = r.exc
        /\ UNCHANGED caller
        /\ IF f = "aborted"
           THEN UNCHANGED <<current_size, bucket_list, hist>>
           ELSE /\ current_size' = [current_size EXCEPT ![c] = r.size]
                /\ bucket_list' = [bucket_list EXCEPT ![c] = r.list]
                /\ hist' = [hist EXCEPT ![c] = h1]

\* the model follows MaxSize elements
TotalSize == current_size["a"] + current_size["b"]

\* container c may take size new_size
Fits(c, new_size) == TotalSize - size(c) + new_size <= MaxSize

\* enough new[] calls succeed for any call the model makes
Plenty == MaxSize + 1

Pushed(c, element) ==
    IF hist[c].pure THEN Pure(Append(hist[c].vals, element)) ELSE Mixed

\* ---------------------------------------------------------------- actions
PushBackCall(c, element, avail) ==
    LET r == push_back(size(c), bucket_list[c], element, avail)
    IN  /\ Running /\ pc = "build"
        /\ Fits(c, size(c) + 1)
        /\ Commit(c, r, IF r.exc = "none" THEN Pushed(c, element) ELSE hist[c])
        /\ UNCHANGED <<it, pc, visited>>

EmplaceBackCall(c, element, avail) ==
    LET r == emplace_back(size(c), bucket_list[c], element, avail)
    IN  /\ Running /\ pc = "build"
        /\ Fits(c, size(c) + 1)
        /\ Commit(c, r, IF r.exc = "none" THEN Pushed(c, element) ELSE hist[c])
        /\ UNCHANGED <<it, pc, visited>>

ResizeCall(c, new_size, avail) ==
    LET r == resize(size(c), bucket_list[c], new_size, avail)
    IN  /\ Running /\ pc = "build"
        /\ Fits(c, r.size)
        /\ Commit(c, r, IF r.exc = "none" THEN Mixed ELSE hist[c])
        /\ UNCHANGED <<it, pc, visited>>

PushBack == \E c \in Containers, element \in Values : PushBackCall(c, element, Plenty)

EmplaceBack ==
    \E c \in Containers, element \in Values : EmplaceBackCall(c, element, Plenty)

Resize == \E c \in Containers, new_size \in 0..MaxSize : ResizeCall(c, new_size, Plenty)

ReserveCall(c, n) ==
    LET r == reserve(size(c), bucket_list[c], n)
    IN  /\ Running /\ pc = "build"
        /\ \E f \in Outcomes(r) :
               /\ fault' = f
               /\ thrown' = r.exc
        /\ current_size' = [current_size EXCEPT ![c] = r.size]
        /\ bucket_list' = [bucket_list EXCEPT ![c] = r.list]
        /\ UNCHANGED <<it, hist, pc, visited, iterators, got>>

Reserve ==
    \E c \in Containers, n \in 0..MaxSize : ReserveCall(c, n) /\ UNCHANGED wanted

ClearCall(c) ==
    LET r == clear(size(c), bucket_list[c])
    IN  /\ Running /\ pc = "build"
        /\ Commit(c, r, Mixed)
        /\ UNCHANGED <<it, pc, visited>>

Clear == \E c \in Containers : ClearCall(c)

SwapCall(c, other) ==
    LET r == swap(current_size, bucket_list, c, other)
    IN  /\ Running /\ pc = "build"
        /\ current_size' = r.size
        /\ bucket_list' = r.list
        /\ hist' = [x \in Containers |-> Mixed]
        /\ thrown' = "none"
        /\ fault' = "none"
        /\ UNCHANGED <<it, pc, visited>>
        /\ UNCHANGED caller

Swap == \E c \in Containers, other \in Containers : SwapCall(c, other)

\* dbegin(), lines 253-256
DBeginCall(c) ==
    /\ Running
    /\ it' = [index |-> 0, list |-> c]
    /\ thrown' = "none"
    /\ fault' = "none"
    /\ UNCHANGED <<current_size, bucket_list, hist>>
    /\ UNCHANGED caller

\* the two containers are interchangeable, so the iterator is taken on "a"
DBegin == pc = "build" /\ DBeginCall("a") /\ UNCHANGED <<pc, visited>>

\* ++it on the draining iterator
IncrementCall ==
    LET c == it.list
        r == increment(it.index, bucket_list[c])
    IN  /\ Running
        /\ it.list # NoList
        /\ it.index < MaxSize
        /\ Commit(c, [r EXCEPT !.size = size(c)], Mixed)
        /\ it' = IF fault' = "aborted" THEN it ELSE [it EXCEPT !.index = r.size]

Increment == pc = "build" /\ IncrementCall /\ UNCHANGED <<pc, visited>>

\* *it on the draining iterator: reads, changes nothing
DereferenceCall ==
    LET c == it.list
        r == dereference(it.index, bucket_list[c])
    IN  /\ Running
        /\ it.list # NoList
        /\ thrown' = r.exc
        /\ fault' \in (IF r.exc # "none" \/ r.ptr = "live" THEN {"none"}
                       ELSE IF r.ptr = "null" THEN {"aborted"}
                       ELSE {"wild_read", "aborted"})
        /\ UNCHANGED <<current_size, bucket_list, it, hist>>
        /\ UNCHANGED caller

\* ------------------------------------------------------ the draining loop
\* for (auto it = v.dbegin(); it != v.dend(); ++it) { use(*it); }
\* over a container that was built by push_back, emplace_back and growing
\* resize
ResizeGrow ==
    \E c \in Containers, new_size \in 0..MaxSize :
        new_size >= size(c) /\ ResizeCall(c, new_size, Plenty)

LoopBegin ==
    /\ pc = "build"
    /\ DBeginCall("a")
    /\ pc' = "test"
    /\ visited' = <<>>

LoopTest ==
    /\ pc = "test"
    /\ Running
    /\ pc' = IF equal(it.index, dend(it.list)) THEN "done" ELSE "body"
    /\ thrown' = "none"
    /\ fault' = "none"
    /\ UNCHANGED <<current_size, bucket_list, it, hist, visited>>
    /\ UNCHANGED caller

LoopBody ==
    /\ pc = "body"
    /\ DereferenceCall
    /\ pc' = "incr"
    /\ visited' = Append(visited, it.index)

LoopIncrement ==
    /\ pc = "incr"
    /\ IncrementCall
    /\ pc' = "test"
    /\ UNCHANGED visited

NextDrain ==
    \/ PushBack
    \/ EmplaceBack
    \/ ResizeGrow
    \/ LoopBegin
    \/ LoopTest
    \/ LoopBody
    \/ LoopIncrement

SpecDrain == Init /\ [][NextDrain]_vars

\* ------------------------------------------------- allocation failure
\* new[] throws std::bad_alloc after avail successful allocations
PushBackFail ==
    \E c \in Containers, element \in Values :
        size(c) = capacity(c) /\ PushBackCall(c, element, 0)

EmplaceBackFail ==
    \E c \in Containers, element \in Values :
        size(c) = capacity(c) /\ EmplaceBackCall(c, element, 0)

ResizeFail ==
    \E c \in Containers, new_size \in 0..(MaxSize + ELEMENTS_PER_BLOCK),
       avail \in 0..Plenty :
        /\ new_size >= size(c)
        /\ avail < blocks_to_add(bucket_list[c], new_size)
        /\ ResizeCall(c, new_size, avail)

NextOOM ==
    \/ PushBack
    \/ EmplaceBack
    \/ Resize
    \/ Clear
    \/ PushBackFail
    \/ EmplaceBackFail
    \/ ResizeFail

SpecOOM == Init /\ [][NextOOM]_vars

\* ------------------------------------- the non-destructive iterator
\* DeallocatingVectorIterator, lines 66-105.  Its index is a std::size_t and
\* distance_to returns a std::ptrdiff_t: words of WordBits bits here.
Word == 2 ^ WordBits

\* conversion of an integer to std::size_t: the value modulo 2^WordBits
to_size_t(n) == ((n % Word) + Word) % Word

\* conversion of a std::size_t to std::ptrdiff_t: the two's complement value
to_ptrdiff_t(u) == IF u >= Word \div 2 THEN u - Word ELSE u

\* advance, line 82: current_state.index += n, n a std::size_t
advance(index, n) == (index + n) % Word

\* increment, line 84: advance(1)
iterator_increment(index) == advance(index, 1)

\* decrement, line 86: advance(-1), the -1 converted to std::size_t
decrement(index) == advance(index, to_size_t(-1))

\* equal, lines 88-91
iterator_equal(index, other_index) == index = other_index

\* a distance taken 'this minus other'
distance_to_reversed(index, other_index) ==
    to_ptrdiff_t(to_size_t(index - other_index))

\* distance_to, lines 93-97: other.index - index in std::size_t, returned as
\* std::ptrdiff_t
distance_to(index, other_index) ==
    to_ptrdiff_t(to_size_t(other_index - index))

\* DeallocatingVectorRemoveIterator::distance_to, lines 145-148
remove_distance_to(index, other_index) ==
    to_ptrdiff_t(to_size_t(other_index - index))

\* a dereference that maps the index to the block after the right one
iterator_dereference_next_bucket(index, list) ==
    LET current_bucket == (index \div ELEMENTS_PER_BLOCK) + 1
        current_index == index % ELEMENTS_PER_BLOCK
    IN  IF current_bucket >= Len(list)
        THEN [exc |-> "out_of_range", ptr |-> "null", values |-> {}]
        ELSE [exc |-> "none", ptr |-> list[current_bucket + 1].ptr,
              values |-> read_block(list[current_bucket + 1], current_index)]

\* DeallocatingVectorIterator::dereference, lines 99-104
iterator_dereference(index, list) ==
    LET current_bucket == index \div ELEMENTS_PER_BLOCK
        current_index == index % ELEMENTS_PER_BLOCK
    IN  IF current_bucket >= Len(list)
        THEN [exc |-> "out_of_range", ptr |-> "null", values |-> {}]
        ELSE [exc |-> "none", ptr |-> list[current_bucket + 1].ptr,
              values |-> read_block(list[current_bucket + 1], current_index)]

\* begin(), line 249, and end(), line 251
begin(c) == [index |-> 0, list |-> c]
end(c) == [index |-> size(c), list |-> c]

\* the iterating loop
\* for (auto it = v.begin(); it != v.end(); ++it) { use(*it); }
\* over a container built by push_back, emplace_back, growing resize, clear
\* and swap; it can be run again when it has ended
IterBegin ==
    /\ pc \in {"build", "idone"}
    /\ Running
    /\ cursor' = begin("a")
    /\ pc' = "itest"
    /\ visited' = <<>>
    /\ fault' = "none" /\ thrown' = "none"
    /\ UNCHANGED <<current_size, bucket_list, it, hist, peer, diff, wanted, got>>

IterTest ==
    /\ pc = "itest"
    /\ Running
    /\ peer' = end(cursor.list)
    /\ pc' = IF iterator_equal(cursor.index, peer'.index) THEN "idone" ELSE "ibody"
    /\ fault' = "none" /\ thrown' = "none"
    /\ UNCHANGED <<current_size, bucket_list, it, hist, visited, cursor, diff, wanted, got>>

IterBody ==
    LET r == iterator_dereference(cursor.index, bucket_list[cursor.list])
    IN  /\ pc = "ibody"
        /\ Running
        /\ thrown' = r.exc
        /\ fault' \in (IF r.exc # "none" \/ r.ptr = "live" THEN {"none"}
                       ELSE IF r.ptr = "null" THEN {"aborted"}
                       ELSE {"wild_read", "aborted"})
        /\ pc' = "iincr"
        /\ visited' = Append(visited, cursor.index)
        /\ UNCHANGED <<current_size, bucket_list, it, hist>>
        /\ UNCHANGED caller

IterIncrement ==
    /\ pc = "iincr"
    /\ Running
    /\ cursor' = [cursor EXCEPT !.index = iterator_increment(@)]
    /\ pc' = "itest"
    /\ fault' = "none" /\ thrown' = "none"
    /\ UNCHANGED <<current_size, bucket_list, it, hist, visited, peer, diff, wanted, got>>

\* random access: two iterators of the same container, moved by the caller
\* inside [begin(), end()]
TakeIterators ==
    /\ pc = "build"
    /\ Running
    /\ cursor' = begin("a")
    /\ peer' = end("a")
    /\ pc' = "seek"
    /\ fault' = "none" /\ thrown' = "none"
    /\ UNCHANGED <<current_size, bucket_list, it, hist, visited, diff, wanted, got>>

InRange(index, c) == index >= 0 /\ index <= size(c)

\* it += n, n a difference_type handed to advance(std::size_t)
AdvanceCall ==
    \E n \in (0 - MaxSize)..MaxSize, moved \in {"cursor", "peer"} :
        /\ pc = "seek"
        /\ IF moved = "cursor"
           THEN /\ InRange(cursor.index + n, cursor.list)
                /\ cursor' = [cursor EXCEPT !.index = advance(@, to_size_t(n))]
                /\ UNCHANGED peer
           ELSE /\ InRange(peer.index + n, peer.list)
                /\ peer' = [peer EXCEPT !.index = advance(@, to_size_t(n))]
                /\ UNCHANGED cursor
        /\ fault' = "none" /\ thrown' = "none"
        /\ UNCHANGED <<current_size, bucket_list, it, hist, pc, visited, diff, wanted, got>>

\* --it
DecrementCall ==
    /\ pc = "seek"
    /\ InRange(cursor.index - 1, cursor.list)
    /\ cursor' = [cursor EXCEPT !.index = decrement(@)]
    /\ fault' = "none" /\ thrown' = "none"
    /\ UNCHANGED <<current_size, bucket_list, it, hist, pc, visited, peer, diff, wanted, got>>

\* d = peer - cursor, which is cursor.distance_to(peer)
DistanceToCall ==
    /\ pc = "seek"
    /\ diff' = distance_to(cursor.index, peer.index)
    /\ pc' = "measured"
    /\ fault' = "none" /\ thrown' = "none"
    /\ UNCHANGED <<current_size, bucket_list, it, hist, visited, cursor, peer, wanted, got>>

\* cursor += d
AdvanceByDistance ==
    /\ pc = "measured"
    /\ cursor' = [cursor EXCEPT !.index = advance(@, to_size_t(diff))]
    /\ pc' = "seek"
    /\ fault' = "none" /\ thrown' = "none"
    /\ UNCHANGED <<current_size, bucket_list, it, hist, visited, peer, diff, wanted, got>>

NextIter ==
    \/ PushBack
    \/ EmplaceBack
    \/ ResizeGrow
    \/ Clear
    \/ Swap
    \/ IterBegin
    \/ IterTest
    \/ IterBody
    \/ IterIncrement
    \/ TakeIterators
    \/ AdvanceCall
    \/ DecrementCall
    \/ DistanceToCall
    \/ AdvanceByDistance

SpecIter == Init /\ [][NextIter]_vars

\* ------------------------------------- the draining iterator, call by call
\* dbegin(), ++it up to dend(), *it, it == dend() and it.distance_to(dend())
\* in any order, between appends, growing resizes, clear and swap
IncrementWithin ==
    /\ it.list # NoList
    /\ it.index < dend(it.list)
    /\ Increment

Dereference ==
    /\ pc = "build"
    /\ it.list # NoList
    /\ it.index < dend(it.list)
    /\ DereferenceCall
    /\ UNCHANGED <<pc, visited>>

\* it == dend()
EqualCall ==
    /\ pc = "build"
    /\ Running
    /\ it.list # NoList
    /\ equal(it.index, dend(it.list)) \in BOOLEAN
    /\ fault' = "none" /\ thrown' = "none"
    /\ UNCHANGED <<current_size, bucket_list, it, hist, pc, visited>>
    /\ UNCHANGED caller

\* it.distance_to(dend())
RemoveDistanceToCall ==
    /\ pc = "build"
    /\ Running
    /\ it.list # NoList
    /\ diff' = remove_distance_to(it.index, dend(it.list))
    /\ fault' = "none" /\ thrown' = "none"
    /\ UNCHANGED <<current_size, bucket_list, it, hist, pc, visited>>
    /\ UNCHANGED <<cursor, peer, wanted, got>>

NextDrainOps ==
    \/ PushBack
    \/ EmplaceBack
    \/ ResizeGrow
    \/ Clear
    \/ Swap
    \/ DBegin
    \/ IncrementWithin
    \/ Dereference
    \/ EqualCall
    \/ RemoveDistanceToCall

SpecDrainOps == Init /\ [][NextDrainOps]_vars

\* --------------------------------------------- the mutating operations
\* construct, push_back, emplace_back, resize (growing or shrinking), clear
\* and swap, in any order
NextBuild ==
    \/ PushBack
    \/ EmplaceBack
    \/ Resize
    \/ Clear
    \/ Swap

SpecBuild == Init /\ [][NextBuild]_vars

\* ------------------------------------------------------------- back()
\* v.back() on a container that holds an element
BackCall(c) ==
    LET r == back(size(c), bucket_list[c])
        inside == r.bucket < Len(bucket_list[c])
    IN  /\ Running /\ pc = "build"
        /\ size(c) >= 1
        /\ got' \in r.values
        /\ fault' = IF got' = Trap THEN "aborted"
                    ELSE IF inside /\ bucket_list[c][r.bucket + 1].ptr = "live"
                    THEN "none"
                    ELSE "wild_read"
        /\ thrown' = "none"
        /\ UNCHANGED <<current_size, bucket_list, it, hist, pc, visited>>
        /\ UNCHANGED <<cursor, peer, diff, wanted>>

Back == \E c \in Containers : BackCall(c)

NextBack ==
    \/ PushBack
    \/ EmplaceBack
    \/ Resize
    \/ Clear
    \/ Swap
    \/ Back

SpecBack == Init /\ [][NextBack]_vars

\* ------------------------------------------------------ reserve ahead
\* the caller asks for room for n elements, before or between its appends
ReserveAhead ==
    \E n \in 0..(MaxSize + ELEMENTS_PER_BLOCK) :
        ReserveCall("a", n) /\ wanted' = n

NextReserve ==
    \/ PushBack
    \/ EmplaceBack
    \/ Resize
    \/ Clear
    \/ Swap
    \/ ReserveAhead

SpecReserve == Init /\ [][NextReserve]_vars

\* ------------------------------------------------------- every operation
Next ==
    \/ PushBack
    \/ EmplaceBack
    \/ Reserve
    \/ Resize
    \/ Clear
    \/ Swap
    \/ DBegin
    \/ Increment

Spec == Init /\ [][Next]_vars

\* ================================================================ claims
Max(x, y) == IF x >= y THEN x ELSE y

CeilDiv(x, y) == (x + y - 1) \div y

\* the block slot and the offset that hold logical index i
Cell(list, i) == list[bucket_of(i) + 1].elems[offset_of(i) + 1]

\* C1: a container that was constructed and then only pushed into (N calls of
\* push_back / emplace_back with values v_0..v_(N-1)) has size() = N, reads
\* container[i] = v_i for every i < N and holds max(1, ceil(N /
\* ELEMENTS_PER_BLOCK)) blocks; and a push leaves every block and every
\* element written before it where it was.
C1_State ==
    \A c \in Containers :
        hist[c].pure =>
            /\ size(c) = Len(hist[c].vals)
            /\ \A i \in 0..(size(c) - 1) : At(c, i) = {hist[c].vals[i + 1]}
            /\ Len(bucket_list[c]) = Max(1, CeilDiv(size(c), ELEMENTS_PER_BLOCK))

C1_Step ==
    \A c \in Containers, element \in Values :
        ((PushBackCall(c, element, Plenty) \/ EmplaceBackCall(c, element, Plenty))
         /\ hist[c].pure) =>
            /\ fault' = "none" /\ thrown' = "none"
            /\ hist'[c] = Pure(Append(hist[c].vals, element))
            /\ size(c) + 1 = current_size'[c]
            /\ \A k \in DOMAIN bucket_list[c] :
                   bucket_list'[c][k].ptr = bucket_list[c][k].ptr
            /\ \A i \in 0..(size(c) - 1) :
                   Cell(bucket_list'[c], i) = Cell(bucket_list[c], i)

C1_PushesAppendInOrder == [](C1_State) /\ [][C1_Step]_vars

C1_Witness ==
    /\ hist["a"] = Pure(<<1, 2, 1>>)
    /\ size("a") = 3
    /\ Len(bucket_list["a"]) = 2
    /\ At("a", 2) = {1}

\* ------------------------------------------------------ the draining pass
Draining == pc # "build"

Drained == bucket_list[it.list]

Upto(n) == [i \in 1..n |-> i - 1]

\* C3: a draining pass over a container built by pushes dereferences the
\* indices 0, 1, ..., size() - 1, each once and in this order; every
\* dereference reads a block that is still allocated; and an increment
\* releases block k exactly when it moves the cursor from index
\* (k + 1) * ELEMENTS_PER_BLOCK - 1 to (k + 1) * ELEMENTS_PER_BLOCK.
C3_State ==
    Draining =>
        /\ visited = Upto(IF pc = "incr" THEN it.index + 1 ELSE it.index)
        /\ pc = "done" => visited = Upto(size(it.list))

C3_Step ==
    /\ LoopBody =>
           /\ it.index < size(it.list)
           /\ bucket_of(it.index) < Len(Drained)
           /\ Drained[bucket_of(it.index) + 1].ptr = "live"
           /\ thrown' = "none" /\ fault' = "none"
    /\ LoopIncrement =>
           \A k \in 0..(Len(Drained) - 1) :
               (Drained[k + 1].ptr = "live" /\ bucket_list'[it.list][k + 1].ptr # "live")
               <=> (/\ it.index = (k + 1) * ELEMENTS_PER_BLOCK - 1
                    /\ it'.index = (k + 1) * ELEMENTS_PER_BLOCK)

C3_DrainVisitsInOrder == [](C3_State) /\ [][C3_Step]_vars

C3_Witness ==
    /\ pc = "done"
    /\ size("a") = 3
    /\ visited = <<0, 1, 2>>
    /\ bucket_list["a"][1].ptr = "null"

\* C4: at every point of a draining pass over a container built by push_back,
\* emplace_back and growing resize, with the cursor at index i, the number of
\* blocks still allocated is at most ceil((size() - i) / ELEMENTS_PER_BLOCK) + 1.
C4_DrainMemoryBound ==
    Draining =>
        Cardinality(Live(Drained))
            <= CeilDiv(size(it.list) - it.index, ELEMENTS_PER_BLOCK) + 1

C4_Witness ==
    /\ pc = "body"
    /\ it.index = 2
    /\ size("a") = 3
    /\ Cardinality(Live(Drained)) = 1
    /\ Len(Drained) = 2

\* ------------------------------------------------------------- resize
At_next(c, index) == index_in(bucket_list'[c], index)

\* C5 as stated: a shrinking resize(new_size), new_size < size(), leaves
\* size() = new_size and a block sequence of exactly the needed number of
\* blocks, every one of them a freshly allocated live block: no slot refers to
\* a block this call released.
C5_ShrinkLeavesFreshBlocks ==
    [][\A c \in Containers, new_size \in 0..MaxSize :
           (new_size < size(c) /\ ResizeCall(c, new_size, Plenty)
            /\ fault' # "aborted") =>
               /\ current_size'[c] = new_size
               /\ Len(bucket_list'[c]) = number_of_necessary_buckets(new_size)
               /\ \A k \in DOMAIN bucket_list'[c] :
                      bucket_list'[c][k] = new_block]_vars

\* C6: a growing resize(new_size), new_size >= size(), releases no block
\* (every slot keeps its pointer and its block its content), appends fresh
\* blocks only while capacity() < new_size, leaves every element below the old
\* size readable with the same value at the same index, and sets size() =
\* new_size with capacity() >= new_size.
C6_Step ==
    \A c \in Containers, new_size \in 0..MaxSize :
        (new_size >= size(c) /\ ResizeCall(c, new_size, Plenty)) =>
            /\ fault' = "none" /\ thrown' = "none"
            /\ \A k \in DOMAIN bucket_list[c] : bucket_list'[c][k] = bucket_list[c][k]
            /\ Len(bucket_list'[c])
                   = Max(Len(bucket_list[c]), CeilDiv(new_size, ELEMENTS_PER_BLOCK))
            /\ \A k \in DOMAIN bucket_list'[c] :
                   k > Len(bucket_list[c]) => bucket_list'[c][k] = new_block
            /\ \A i \in 0..(size(c) - 1) : At_next(c, i) = At(c, i)
            /\ current_size'[c] = new_size
            /\ cap_of(bucket_list'[c]) >= new_size

C6_GrowPreserves == [][C6_Step]_vars

C6_Witness ==
    /\ ~ hist["a"].pure
    /\ size("a") = 3
    /\ Len(bucket_list["a"]) = 2
    /\ bucket_list["a"][1] = [ptr |-> "live", elems |-> <<1, Uninit>>]
    /\ bucket_list["a"][2] = new_block

\* C7: in every state reached by construct, push_back, emplace_back, reserve,
\* resize (growing or shrinking), clear, swap and draining increments,
\* capacity() is the number of block slots times ELEMENTS_PER_BLOCK, a
\* multiple of ELEMENTS_PER_BLOCK, and at least size().
C7_CapacityInvariant ==
    \A c \in Containers :
        /\ capacity(c) = Len(bucket_list[c]) * ELEMENTS_PER_BLOCK
        /\ capacity(c) % ELEMENTS_PER_BLOCK = 0
        /\ capacity(c) >= size(c)

C7_Witness ==
    /\ fault = "none"
    /\ \E c \in Containers :
           /\ size(c) = 2 /\ capacity(c) = 4
           /\ bucket_list[c][1].ptr = "dead"

\* the state clear() leaves a container in
Cleared(c) == bucket_list[c] = <<>> /\ size(c) = 0

\* C8 as stated: clear() in any reachable state releases every block still
\* held (each once: no double free), empties the block sequence and leaves
\* size() = 0 and capacity() = 0; and a push_back(v) right after clear()
\* allocates exactly one block and gives size() = 1, capacity() =
\* ELEMENTS_PER_BLOCK and container[0] = v.
C8_ClearThenPush ==
    [][\A c \in Containers :
           /\ ClearCall(c) =>
                  /\ fault' = "none"
                  /\ bucket_list'[c] = <<>>
                  /\ current_size'[c] = 0
                  /\ cap_of(bucket_list'[c]) = 0
           /\ \A v \in Values :
                  (Cleared(c) /\ PushBackCall(c, v, Plenty)) =>
                      /\ Len(bucket_list'[c]) = 1
                      /\ bucket_list'[c][1].ptr = "live"
                      /\ current_size'[c] = 1
                      /\ cap_of(bucket_list'[c]) = ELEMENTS_PER_BLOCK
                      /\ At_next(c, 0) = {v}]_vars

\* C9: a.swap(b) exchanges size() and the block sequence: afterwards a has
\* b's former size, slots, blocks and elements and b has a's; no block is
\* allocated, released or copied (the slots change places as they are); and
\* a second swap restores both containers.
C9_Step ==
    \A c \in Containers, o \in Containers :
        SwapCall(c, o) =>
        LET again == swap(current_size', bucket_list', c, o)
        IN  /\ current_size'[c] = current_size[o]
            /\ current_size'[o] = current_size[c]
            /\ bucket_list'[c] = bucket_list[o]
            /\ bucket_list'[o] = bucket_list[c]
            /\ \A i \in 0..(size(o) - 1) : At_next(c, i) = At(o, i)
            /\ \A i \in 0..(size(c) - 1) : At_next(o, i) = At(c, i)
            /\ again.size = current_size
            /\ again.list = bucket_list

C9_SwapExchanges == [][C9_Step]_vars

\* only the iterator, taken on "a", releases a block and keeps its slot: a
\* null slot in "b" has come over from "a" by a swap
C9_Witness ==
    /\ it.list = "a" /\ it.index = 2
    /\ size("b") = 3 /\ size("a") = 0
    /\ bucket_list["b"][1].ptr = "null"
    /\ At("b", 2) = {1}
    /\ bucket_list["a"] = <<new_block>>

\* C10 as stated: a call of push_back, emplace_back or resize that ends in
\* std::bad_alloc leaves the container as it was before the call: the same
\* size() and the same block sequence.
C10_FailedAllocationLeavesState ==
    [][thrown' = "bad_alloc" =>
           /\ current_size' = current_size
           /\ bucket_list' = bucket_list]_vars

\* what a failed growing resize leaves behind: more blocks than the size
\* needs, so the next push_back writes into the last block, not at to_position(size())
C10_Aftermath ==
    ~ \E c \in Containers :
          /\ fault = "none"
          /\ size(c) = 2
          /\ Len(bucket_list[c]) = 2
          /\ bucket_list[c][1].elems[2] = Uninit
          /\ bucket_list[c][2].elems[2] # Uninit

\* ------------------------------------------- non-destructive iteration
Iterating == pc \in {"itest", "ibody", "iincr", "idone"}

Iterated == bucket_list[cursor.list]

\* C11: a non-destructive pass from begin() to end() over a container built
\* by push_back, emplace_back, growing resize, clear and swap dereferences
\* exactly the indices 0, 1, ..., size() - 1 in increasing order, each
\* dereference reads the element at to_position(index) (the one operator[]
\* reads, the index-th pushed value in a container that was only pushed
\* into), and no step of the pass releases a block or changes size() or an
\* element, so a second pass gives the same.
C11_State ==
    Iterating =>
        /\ fault = "none" /\ thrown = "none"
        /\ cursor.index <= size(cursor.list)
        /\ visited = Upto(IF pc = "iincr" THEN cursor.index + 1 ELSE cursor.index)
        /\ pc = "idone" => visited = Upto(size(cursor.list))

C11_Step ==
    /\ IterBody =>
           LET r == iterator_dereference(cursor.index, Iterated)
           IN  /\ cursor.index < size(cursor.list)
               /\ bucket_of(cursor.index) < Len(Iterated)
               /\ Iterated[bucket_of(cursor.index) + 1].ptr = "live"
               /\ r.exc = "none" /\ r.ptr = "live"
               /\ r.values = read_block(Iterated[bucket_of(cursor.index) + 1],
                                        offset_of(cursor.index))
               /\ r.values = At(cursor.list, cursor.index)
               /\ hist[cursor.list].pure =>
                      r.values = {hist[cursor.list].vals[cursor.index + 1]}
    /\ (IterBegin \/ IterTest \/ IterBody \/ IterIncrement) =>
           UNCHANGED <<current_size, bucket_list, hist>>

C11_IterationVisitsAll == [](C11_State) /\ [][C11_Step]_vars

C11_Witness ==
    /\ pc = "idone"
    /\ hist["a"] = Pure(<<1, 2, 1>>)
    /\ visited = <<0, 1, 2>>
    /\ cursor.index = 3
    /\ \A k \in DOMAIN bucket_list["a"] : bucket_list["a"][k].ptr = "live"

\* C12: for non-destructive iterators at positions a and b in [0, size()],
\* a.distance_to(b) is the signed integer b - a (negative when b < a, although
\* the indices are unsigned words); advancing the iterator at a by that
\* distance gives an iterator equal to the one at b; a decrement, which adds
\* the unsigned representation of -1, gives the position a - 1; and an
\* advance by a signed n gives the position a + n.
C12_State ==
    pc \in {"seek", "measured"} =>
        /\ InRange(cursor.index, cursor.list)
        /\ InRange(peer.index, peer.list)
        /\ pc = "measured" => diff = peer.index - cursor.index

C12_Step ==
    /\ DistanceToCall => diff' = peer.index - cursor.index
    /\ AdvanceByDistance =>
           /\ iterator_equal(cursor'.index, peer.index)
           /\ distance_to(cursor'.index, peer.index) = 0
    /\ DecrementCall => cursor'.index = cursor.index - 1
    /\ (pc = "seek" /\ pc' = "seek") =>
           \E n \in (0 - MaxSize)..MaxSize :
               \/ cursor'.index = cursor.index + n /\ peer' = peer
               \/ peer'.index = peer.index + n /\ cursor' = cursor

C12_SignedDistance == [](C12_State) /\ [][C12_Step]_vars

C12_Witness ==
    /\ pc = "measured"
    /\ cursor.index = 3
    /\ peer.index = 1
    /\ diff = 0 - 2

\* ------------------------------------------------------------ reserve
\* C13: reserve(n) is a no-op for every n in every reachable state: the call
\* returns, allocates and releases no block and leaves size(), capacity(),
\* the block sequence and every element of both containers as they were.
C13_ReserveIsNoOp ==
    [][\A n \in 0..(MaxSize + ELEMENTS_PER_BLOCK) :
           (wanted' = n /\ ReserveCall("a", n)) =>
               /\ fault' = "none" /\ thrown' = "none"
               /\ current_size' = current_size
               /\ bucket_list' = bucket_list
               /\ cap_of(bucket_list'["a"]) = capacity("a")
               /\ \A i \in 0..(size("a") - 1) : At_next("a", i) = At("a", i)]_vars

\* reserve(5) was called on "a", which has only been pushed into since its
\* construction, and "a" still has the one block it was constructed with
C13_Witness ==
    /\ wanted = MaxSize + ELEMENTS_PER_BLOCK
    /\ hist["a"] = Pure(<<1>>)
    /\ capacity("a") = ELEMENTS_PER_BLOCK
    /\ bucket_list["a"] = <<[ptr |-> "live", elems |-> <<1, Uninit>>]>>

\* ----------------------------------------------- the slot a push writes
\* a push of element on container c, by push_back or emplace_back
PushCall(c, element) ==
    PushBackCall(c, element, Plenty) \/ EmplaceBackCall(c, element, Plenty)

\* C14 as stated: in every state reached by construct, push_back,
\* emplace_back, resize (growing or shrinking), clear and swap, a push
\* allocates a block only when size() == capacity(), the last block - the one
\* it writes - has index size() / ELEMENTS_PER_BLOCK, and container[old size]
\* reads the pushed value afterwards.
C14_PushWritesAtSize ==
    [][\A c \in Containers, element \in Values :
           PushCall(c, element) =>
               /\ Len(bucket_list'[c]) > Len(bucket_list[c]) => size(c) = capacity(c)
               /\ Len(bucket_list'[c]) - 1 = bucket_of(size(c))
               /\ fault' = "none"
               /\ At_next(c, size(c)) = {element}]_vars

\* ------------------------------------------------------- block ownership
\* C15 as stated: over any sequence of construct, push_back, emplace_back,
\* resize (growing or shrinking), swap, draining increments and clear that
\* ends with the destructor (which is clear(), line 173), no block is released
\* twice; equivalently, in every reachable state each non-null slot of the
\* block sequence refers to a currently allocated block.
C15_EveryBlockReleasedOnce ==
    /\ \A c \in Containers :
           \A k \in DOMAIN bucket_list[c] : bucket_list[c][k].ptr \in {"null", "live"}
    /\ fault # "double_free"

\* --------------------------------- the draining iterator's frame
\* C16: of the draining iterator's operations only increment() changes the
\* block store, and only when it crosses a block boundary: an increment inside
\* a block releases nothing; a crossing increment releases the block just
\* vacated, once, and sets its slot to null, leaving every other slot and
\* block as it was; dbegin, equal, distance_to and dereference release
\* nothing; and no draining step changes size(), capacity(), the number of
\* slots or the other container.
C16_Step ==
    LET c == it.list
        old_bucket == bucket_of(it.index)
        new_bucket == bucket_of(it.index + 1)
    IN  /\ IncrementWithin =>
               /\ fault' = "none" /\ thrown' = "none"
               /\ it'.index = it.index + 1
               /\ current_size' = current_size
               /\ Len(bucket_list'[c]) = Len(bucket_list[c])
               /\ cap_of(bucket_list'[c]) = capacity(c)
               /\ \A o \in Containers \ {c} : bucket_list'[o] = bucket_list[o]
               /\ old_bucket = new_bucket => bucket_list' = bucket_list
               /\ old_bucket # new_bucket =>
                      \A k \in DOMAIN bucket_list[c] :
                          IF k = old_bucket + 1
                          THEN bucket_list'[c][k].ptr = "null"
                          ELSE bucket_list'[c][k] = bucket_list[c][k]
        /\ (DBegin \/ Dereference \/ EqualCall \/ RemoveDistanceToCall) =>
               UNCHANGED <<current_size, bucket_list>>

C16_OnlyCrossingIncrementReleases == [][C16_Step]_vars

\* a full block drained to dend(): its one slot is null, size() and
\* capacity() are what they were
C16_Witness ==
    /\ it = [index |-> 2, list |-> "a"]
    /\ size("a") = 2
    /\ capacity("a") = 2
    /\ bucket_list["a"][1].ptr = "null"
    /\ fault = "none"

\* C17: after a draining pass has advanced any number of steps from dbegin()
\* up to at most dend(), a push_back(v) or emplace_back(v) never writes into
\* a released block: it allocates a block exactly when size() == capacity(),
\* writes v into the last block, which is allocated and is the block of
\* to_position(size()), and v is then read at index old size().
C17_Step ==
    \A element \in Values :
        (it.list # NoList /\ PushCall(it.list, element)) =>
            LET c == it.list
                list1 == bucket_list'[c]
            IN  /\ fault' = "none" /\ thrown' = "none"
                /\ current_size'[c] = size(c) + 1
                /\ Len(list1) = IF size(c) = capacity(c)
                                THEN Len(bucket_list[c]) + 1
                                ELSE Len(bucket_list[c])
                /\ list1[Len(list1)].ptr = "live"
                /\ Len(list1) = bucket_of(size(c)) + 1
                /\ At_next(c, size(c)) = {element}

C17_PushAfterDrain == [][C17_Step]_vars

\* push_back(2) after the first of two blocks was drained and released
C17_Witness ==
    /\ it = [index |-> 2, list |-> "a"]
    /\ size("a") = 3
    /\ Len(bucket_list["a"]) = 2
    /\ bucket_list["a"][1].ptr = "null"
    /\ bucket_list["a"][2] = [ptr |-> "live", elems |-> <<2, Uninit>>]
    /\ fault = "none"

\* -------------------------------------------------------------- back()
\* C18 as stated: in every reachable state with size() >= 1, back() reads the
\* element at logical index size() - 1 (right after push_back(v) it reads v),
\* and the block index it uses is a valid slot of the block sequence, also
\* when size() == capacity().
C18_BackIsLastElement ==
    [][\A c \in Containers :
           BackCall(c) =>
               /\ back(size(c), bucket_list[c]).bucket < Len(bucket_list[c])
               /\ got' \in At(c, size(c) - 1)
               /\ hist[c].pure => got' = hist[c].vals[size(c)]
               /\ fault' = "none"]_vars
====
